---- MODULE Spec2Model ----
(***************************************************************************)
(* Response decoding of oc2-hlapi (src/src/response.rs).                   *)
(*                                                                         *)
(* One inbound envelope {"type": tag, "data"?: payload} is decoded for a   *)
(* statically known ApiCall T into RpcResponse<T>, and the decoded value   *)
(* is converted into Result<T::Response, String>.                          *)
(*                                                                         *)
(* The decoding is what serde derives for the adjacently tagged enum       *)
(* RpcResponse, plus the hand-written Deserialize of InvokeResponse<R>.    *)
(***************************************************************************)
EXTENDS Integers, Sequences, FiniteSets, TLC

\* ------------------------------------------------------------------ bounds
MaxLen == 2        \* longest `data` array
MaxNum == 1        \* JSON numbers are 0..MaxNum
NumDesc == 2       \* distinct descriptors of each kind are 1..NumDesc

\* ------------------------------------------------------------- JSON values
\* A JSON value is a record [k, n, s, a]: k is its shape, n the number (or the
\* boolean as 0/1, or a descriptor's identity), s the string (or, for an
\* object, which descriptor it is shaped as), a the elements of an array.
J(k, n, s, a) == [k |-> k, n |-> n, s |-> s, a |-> a]

JNull == J("null", 0, "", <<>>)

\* The `data` key is not in the envelope: serde hands the variant's content a
\* deserializer that stands for a missing field.
Absent == J("absent", 0, "", <<>>)

Messages == {"", "oops"}

Scalars ==
    {JNull}
    \cup {J("bool", b, "", <<>>) : b \in 0..1}
    \cup {J("num", n, "", <<>>) : n \in 0..MaxNum}
    \cup {J("str", 0, s, <<>>) : s \in Messages}

Objects == {J("obj", i, d, <<>>) : i \in 1..NumDesc, d \in {"device", "method"}}

Elements == Objects \cup {J("num", 0, "", <<>>)}

SeqsUpTo(S, n) == UNION {[1..m -> S] : m \in 0..n}

Arrays == {J("arr", 0, "", a) : a \in SeqsUpTo(Elements, MaxLen)}

JsonValues == Scalars \cup Objects \cup Arrays

\* ------------------------------------------------------------- Rust values
\* Return types R of an Invoke call, and the values of those types.
ReturnTypes == {"Unit", "I32", "String", "OptionI32"}

V(ty, some, n, s) == [ty |-> ty, some |-> some, n |-> n, s |-> s]

NoValue == V("", FALSE, 0, "")

UnitValue == V("Unit", FALSE, 0, "")

\* std::mem::size_of::<R>()
size_of(R) ==
    CASE R = "Unit" -> 0
      [] R = "I32" -> 4
      [] R = "OptionI32" -> 8
      [] R = "String" -> 24

\* --------------------------------------------------------- decode outcomes
\* The outcome of a deserializer: ok with a payload (list, value or msg), or an
\* error (err, field). zst records the type zst() was called with, panic that
\* its assertion failed.
Blank ==
    [ok |-> FALSE, err |-> "", field |-> "", variant |-> "", list |-> <<>>,
     value |-> NoValue, msg |-> "", zst |-> "", panic |-> FALSE]

OkValue(v) == [Blank EXCEPT !.ok = TRUE, !.value = v]
OkList(l) == [Blank EXCEPT !.ok = TRUE, !.list = l]
OkMsg(m) == [Blank EXCEPT !.ok = TRUE, !.msg = m]

\* de::Error::missing_field(field)
missing_field(f) == [Blank EXCEPT !.err = "MissingField", !.field = f]
\* de::Error::invalid_type: the payload has not the expected shape
invalid_type == [Blank EXCEPT !.err = "PayloadShapeMismatch"]
\* de::Error::unknown_variant: the tag names no variant
unknown_variant == [Blank EXCEPT !.err = "UnrecognizedTag"]

\* Option<R>::None, as the value of an Ok outcome
None == NoValue

\* ------------------------------------------------------- payload decoders
\* R::deserialize on a `data` value that is there: what serde's impls for
\* (), i32, String and Option<i32> accept.
R_deserialize(R, d) ==
    CASE R = "Unit" ->
            IF d.k = "null" THEN OkValue(UnitValue) ELSE invalid_type
      [] R = "I32" ->
            IF d.k = "num" THEN OkValue(V("I32", FALSE, d.n, "")) ELSE invalid_type
      [] R = "String" ->
            IF d.k = "str" THEN OkValue(V("String", FALSE, 0, d.s)) ELSE invalid_type
      [] R = "OptionI32" ->
            IF d.k = "null" THEN OkValue(V("OptionI32", FALSE, 0, ""))
            ELSE IF d.k = "num" THEN OkValue(V("OptionI32", TRUE, d.n, ""))
            ELSE invalid_type

\* let opt: Option<R> = Deserialize::deserialize(deserializer)
\* A missing field and a JSON null are both None; anything else is Some(r) with
\* r decoded as R, or R's error.
Option_deserialize(R, d) ==
    IF d.k \in {"absent", "null"} THEN OkValue(None) ELSE R_deserialize(R, d)

\* fn zst<T>() -> T: the assertion, then the one value of the zero-sized T
zst(T_) ==
    IF size_of(T_) = 0
    THEN [OkValue(V(T_, FALSE, 0, "")) EXCEPT !.zst = T_]
    ELSE [Blank EXCEPT !.zst = T_, !.panic = TRUE]

\* Variants of InvokeResponse::deserialize with one arm changed.
\* An absent payload falls back to a default value of R, whatever R is.
InvokeResponse_deserialize_default(R, d) ==
    LET opt == Option_deserialize(R, d) IN
    IF ~opt.ok THEN opt
    ELSE IF opt.value # None THEN OkValue(opt.value)
    ELSE OkValue(V(R, FALSE, 0, ""))

\* The void arm is gone, as with a derived Deserialize: an absent payload is
\* always a missing field.
InvokeResponse_deserialize_derived(R, d) ==
    LET opt == Option_deserialize(R, d) IN
    IF ~opt.ok THEN opt
    ELSE IF opt.value # None THEN OkValue(opt.value)
    ELSE missing_field("data")

\* The size guard of the None arm is gone: zst() is called for every R.
InvokeResponse_deserialize_unguarded(R, d) ==
    LET opt == Option_deserialize(R, d) IN
    IF ~opt.ok THEN opt
    ELSE IF opt.value # None THEN OkValue(opt.value)
    ELSE zst(R)

\* <InvokeResponse<R> as Deserialize>::deserialize
InvokeResponse_deserialize(R, d) ==
    LET opt == Option_deserialize(R, d) IN
    IF ~opt.ok THEN opt
    ELSE IF opt.value # None THEN OkValue(opt.value)
    ELSE IF size_of(R) = 0 THEN zst(R)
    ELSE missing_field("data")

\* DeviceDescriptor and MethodDescriptor are opaque decodable records: an
\* element decodes as a descriptor exactly when it is an object of that shape.
DeviceDescriptor_deserialize(e) ==
    IF e.k = "obj" /\ e.s = "device"
    THEN OkValue(V("DeviceDescriptor", FALSE, e.n, ""))
    ELSE invalid_type

MethodDescriptor_deserialize(e) ==
    IF e.k = "obj" /\ e.s = "method"
    THEN OkValue(V("MethodDescriptor", FALSE, e.n, ""))
    ELSE invalid_type

\* Vec<D>::deserialize, r[i] being what D::deserialize makes of the i-th
\* element: every element in order, the first error ends it
Vec_deserialize(d, r) ==
    IF d.k = "absent" THEN missing_field("data")
    ELSE IF d.k # "arr" THEN invalid_type
    ELSE IF \E i \in 1..Len(r) : ~r[i].ok
    THEN r[CHOOSE i \in 1..Len(r) : ~r[i].ok /\ \A j \in 1..(i - 1) : r[j].ok]
    ELSE OkList([i \in 1..Len(r) |-> r[i].value])

\* A variant of ListResponse's decoder that drops the elements that do not
\* decode and keeps the rest.
ListResponse_deserialize_partial(d) ==
    IF d.k # "arr" THEN Vec_deserialize(d, <<>>)
    ELSE LET good == SelectSeq(d.a, LAMBDA e : DeviceDescriptor_deserialize(e).ok)
         IN  OkList([i \in 1..Len(good) |-> DeviceDescriptor_deserialize(good[i]).value])

\* #[derive(Deserialize)] struct ListResponse(pub Vec<DeviceDescriptor>)
ListResponse_deserialize(d) ==
    Vec_deserialize(d, [i \in 1..Len(d.a) |-> DeviceDescriptor_deserialize(d.a[i])])

\* #[derive(Deserialize)] struct MethodsResponse(pub Vec<MethodDescriptor>)
MethodsResponse_deserialize(d) ==
    Vec_deserialize(d, [i \in 1..Len(d.a) |-> MethodDescriptor_deserialize(d.a[i])])

\* A variant of the Error content's decoder where a missing `data` is the
\* empty message, as with #[serde(default)].
String_deserialize_default(d) ==
    IF d.k = "absent" THEN OkMsg("")
    ELSE IF d.k = "str" THEN OkMsg(d.s)
    ELSE invalid_type

\* String::deserialize, the content of the Error variant
String_deserialize(d) ==
    IF d.k = "absent" THEN missing_field("data")
    ELSE IF d.k = "str" THEN OkMsg(d.s)
    ELSE invalid_type

\* ------------------------------------------------------- envelope decoder
\* T::Response of an ApiCall T: ListResponse, MethodsResponse or
\* InvokeResponse<R>
Response_deserialize(T_, d) ==
    CASE T_.kind = "List" -> ListResponse_deserialize(d)
      [] T_.kind = "Methods" -> MethodsResponse_deserialize(d)
      [] T_.kind = "Invoke" -> InvokeResponse_deserialize(T_.R, d)

\* Variants of the tag match: without the two aliases, and with every
\* unknown tag taken for Response, as with #[serde(other)].
variant_of_noalias(tag) ==
    CASE tag = "result" -> "Response"
      [] tag = "error" -> "Error"
      [] OTHER -> ""

variant_of_other(tag) ==
    CASE tag = "error" -> "Error"
      [] OTHER -> "Response"

\* The variant a tag names: rename = "result" with the aliases "list" and
\* "methods" for Response, the lowercased name for Error; "" for any other tag.
variant_of(tag) ==
    CASE tag \in {"result", "list", "methods"} -> "Response"
      [] tag = "error" -> "Error"
      [] OTHER -> ""

\* <RpcResponse<T> as Deserialize>::deserialize, derived with tag = "type" and
\* content = "data"
RpcResponse_deserialize(T_, env) ==
    LET variant == variant_of(env.type)
        content == IF variant = "Response" THEN Response_deserialize(T_, env.data)
                   ELSE String_deserialize(env.data)
    IN  IF variant = "" THEN unknown_variant
        ELSE IF content.ok THEN [content EXCEPT !.variant = variant]
        ELSE content

\* ------------------------------------------------------ result conversion
\* Result<T::Response, String>
NoOutcome == [done |-> FALSE, isOk |-> FALSE, list |-> <<>>, value |-> NoValue, err |-> ""]

\* A variant of the conversion that loses the server's message.
from_nomessage(value) ==
    IF value.variant = "Response"
    THEN [done |-> TRUE, isOk |-> TRUE, list |-> value.list, value |-> value.value, err |-> ""]
    ELSE [done |-> TRUE, isOk |-> FALSE, list |-> <<>>, value |-> NoValue, err |-> ""]

\* impl From<RpcResponse<T>> for Result<T::Response, String>
from(value) ==
    IF value.variant = "Response"
    THEN [done |-> TRUE, isOk |-> TRUE, list |-> value.list, value |-> value.value, err |-> ""]
    ELSE [done |-> TRUE, isOk |-> FALSE, list |-> <<>>, value |-> NoValue, err |-> value.msg]

\* ------------------------------------------------------------------ state
VARIABLES T, envelope, pc, response, outcome
vars == <<T, envelope, pc, response, outcome>>

Calls ==
    {[kind |-> k, R |-> ""] : k \in {"List", "Methods"}}
    \cup {[kind |-> "Invoke", R |-> r] : r \in ReturnTypes}

Tags == {"list", "methods", "result", "error", "banana", "Error"}

Envelopes == {[type |-> t, data |-> d] : t \in Tags, d \in JsonValues \cup {Absent}}

\* One response has arrived for a pending request of call T.
Init ==
    /\ T \in Calls
    /\ envelope \in Envelopes
    /\ pc = "received"
    /\ response = Blank
    /\ outcome = NoOutcome

\* The dispatch layer decodes the envelope as RpcResponse<T>.
Decode ==
    /\ pc = "received"
    /\ response' = RpcResponse_deserialize(T, envelope)
    /\ pc' = IF response'.panic THEN "panicked"
             ELSE IF response'.ok THEN "decoded"
             ELSE "failed"
    /\ UNCHANGED <<T, envelope, outcome>>

\* The decoded response is turned into the request's outcome.
Convert ==
    /\ pc = "decoded"
    /\ outcome' = from(response)
    /\ pc' = "converted"
    /\ UNCHANGED <<T, envelope, response>>

Next == Decode \/ Convert

Spec == Init /\ [][Next]_vars

\* ----------------------------------------------------------------- claims
SuccessTags == {"result", "list", "methods"}

Decoded == pc # "received"

IsInvoke == T.kind = "Invoke"

\* The void marker among the return types
IsVoid == IsInvoke /\ T.R = "Unit"

Present == envelope.data # Absent

FailedWith(e) == pc = "failed" /\ ~response.ok /\ response.err = e

IsSuccess == pc \in {"decoded", "converted"} /\ response.ok /\ response.variant = "Response"

\* C1: an Invoke with a non-void R, a success tag and no `data` fails with
\* MissingField("data"), and never is a Success.
C1_NonVoidAbsentIsMissingField ==
    (Decoded /\ IsInvoke /\ ~IsVoid /\ envelope.type \in SuccessTags /\ ~Present)
        => (FailedWith("MissingField") /\ response.field = "data")

C1_Witness ==
    /\ IsInvoke /\ T.R = "I32" /\ envelope.type = "result" /\ ~Present
    /\ FailedWith("MissingField")

\* C2: an Invoke with the void return type, the tag "result" and no `data` is
\* Success carrying the one void value.
C2_VoidAbsentIsSuccess ==
    (Decoded /\ IsVoid /\ envelope.type = "result" /\ ~Present)
        => (IsSuccess /\ response.value = UnitValue)

C2_Witness ==
    /\ IsVoid /\ envelope.type = "result" /\ ~Present
    /\ pc = "converted" /\ outcome.isOk /\ outcome.value = UnitValue

\* C3 (as claimed): an Invoke whose `data` is there, null included, but does not
\* decode as R fails with PayloadShapeMismatch, not with MissingField.
C3_PresentUndecodableIsShapeMismatch ==
    (Decoded /\ IsInvoke /\ envelope.type \in SuccessTags /\ Present
        /\ ~R_deserialize(T.R, envelope.data).ok)
        => FailedWith("PayloadShapeMismatch")

\* C4 (as claimed): an Invoke whose `data` is there and decodes as R, null for
\* an optional R included, is Success with that value.
C4_PresentDecodableIsSuccess ==
    (Decoded /\ IsInvoke /\ envelope.type \in SuccessTags /\ Present
        /\ R_deserialize(T.R, envelope.data).ok)
        => (IsSuccess /\ response.value = R_deserialize(T.R, envelope.data).value)

\* The descriptor shape a List or Methods call expects
ShapeOf(kind) == IF kind = "List" THEN "device" ELSE "method"

ValidElement(e) == e.k = "obj" /\ e.s = ShapeOf(T.kind)

ValidSequence ==
    /\ envelope.data.k = "arr"
    /\ \A i \in 1..Len(envelope.data.a) : ValidElement(envelope.data.a[i])

\* C5: a List or Methods call whose `data` is a valid descriptor sequence S is
\* Success(S), same elements in the same order, under each of the three success
\* tags.
C5_SequenceDecodedInOrder ==
    (Decoded /\ ~IsInvoke /\ envelope.type \in SuccessTags /\ ValidSequence)
        => /\ IsSuccess
           /\ Len(response.list) = Len(envelope.data.a)
           /\ \A i \in 1..Len(envelope.data.a) :
                response.list[i].n = envelope.data.a[i].n

C5_Witness ==
    /\ T.kind = "List" /\ envelope.type = "list" /\ ValidSequence
    /\ Len(envelope.data.a) = 2
    /\ envelope.data.a[1].n = 2 /\ envelope.data.a[2].n = 1
    /\ pc = "converted"
    /\ outcome.isOk /\ outcome.list[1].n = 2 /\ outcome.list[2].n = 1

\* C6: for every call, the tag "error" with a string s is Error(s), which the
\* conversion turns into the failure carrying s; a Success converts into the
\* success carrying its payload.
C6_ErrorCarriesMessage ==
    /\ (Decoded /\ envelope.type = "error" /\ envelope.data.k = "str")
          => /\ pc \in {"decoded", "converted"}
             /\ response.ok /\ response.variant = "Error"
             /\ response.msg = envelope.data.s
             /\ pc = "converted" => (~outcome.isOk /\ outcome.err = envelope.data.s)
    /\ (pc = "converted" /\ response.variant = "Response")
          => /\ outcome.isOk
             /\ outcome.list = response.list
             /\ outcome.value = response.value

C6_Witness ==
    /\ IsVoid /\ envelope.type = "error"
    /\ envelope.data.k = "str" /\ envelope.data.s = "oops"
    /\ pc = "converted" /\ ~outcome.isOk /\ outcome.err = "oops"

\* C7 (as claimed): without `data` only the tag "result" for a void Invoke is
\* accepted; "list", "methods" and "error" fail for every call, "error" with
\* MissingField.
C7_AbsentAcceptedOnlyForResult ==
    (Decoded /\ ~Present)
        => /\ response.ok => (envelope.type = "result" /\ IsVoid)
           /\ envelope.type = "error" => FailedWith("MissingField")

\* C7 (amended): without `data` an envelope is accepted only when the call is a
\* void Invoke and the tag is one of the three success tags; the tag "error"
\* fails with MissingField("data") for every call, and every tag fails for
\* List, Methods and a non-void Invoke.
C7_AbsentAcceptedOnlyForVoid ==
    (Decoded /\ ~Present)
        => /\ response.ok => (envelope.type \in SuccessTags /\ IsVoid)
           /\ envelope.type = "error"
                => (FailedWith("MissingField") /\ response.field = "data")
           /\ ~IsVoid => pc = "failed"

C7_Witness ==
    /\ IsVoid /\ envelope.type = "error" /\ ~Present
    /\ FailedWith("MissingField")

\* C8 (as claimed): a List or Methods call fails with PayloadShapeMismatch when
\* `data` is absent, is no sequence, or has an element that is no descriptor.
C8_BadSequenceIsShapeMismatch ==
    (Decoded /\ ~IsInvoke /\ envelope.type \in SuccessTags /\ ~ValidSequence)
        => FailedWith("PayloadShapeMismatch")

\* C8 (amended): a List or Methods call fails with MissingField("data") when
\* `data` is absent, and with PayloadShapeMismatch when `data` is no sequence or
\* has an element that is no descriptor; no partial sequence is a Success.
C8_BadSequenceFails ==
    (Decoded /\ ~IsInvoke /\ envelope.type \in SuccessTags /\ ~ValidSequence)
        => IF Present
           THEN FailedWith("PayloadShapeMismatch")
           ELSE FailedWith("MissingField") /\ response.field = "data"

C8_Witness ==
    /\ T.kind = "List" /\ envelope.type = "list"
    /\ envelope.data.k = "arr" /\ Len(envelope.data.a) = 2
    /\ ValidElement(envelope.data.a[1]) /\ ~ValidElement(envelope.data.a[2])
    /\ FailedWith("PayloadShapeMismatch")

\* C9: for every call, with or without `data`, a tag other than "list",
\* "methods", "result" and "error" fails with UnrecognizedTag.
C9_UnknownTagIsUnrecognized ==
    (Decoded /\ envelope.type \notin SuccessTags \cup {"error"})
        => FailedWith("UnrecognizedTag")

C9_Witness ==
    /\ envelope.type = "banana" /\ Present /\ envelope.data.k = "arr"
    /\ T.kind = "Methods"
    /\ FailedWith("UnrecognizedTag")

\* C10: zst() is called only for a zero-sized R, so its assertion never fails,
\* and no value of a type with a representation comes out of an absent payload.
C10_ZstOnlyForZeroSized ==
    /\ pc # "panicked"
    /\ ~response.panic
    /\ response.zst # "" => size_of(response.zst) = 0
    /\ (IsInvoke /\ ~Present /\ response.ok /\ response.variant = "Response")
          => size_of(T.R) = 0

C10_Witness ==
    /\ IsVoid /\ ~Present /\ envelope.type = "result"
    /\ pc = "decoded" /\ response.zst = "Unit"

====
